---- MODULE Spec2Model ----
(***************************************************************************)
(* Model of the activity-driven session tracker of git-branch-time-tracker *)
(* (GitBranchTimeTracker in services/time-tracker-service.ts together with *)
(* BatchUpdater in utils/batch-updater.ts).                                *)
(*                                                                         *)
(* Times are epoch milliseconds.  `clock` is the event loop's monotonic    *)
(* time (what setTimeout and the exec timeout measure); Date.now() is      *)
(* clock + wallOffset, and the wall clock may step back.  An onActivity    *)
(* call that reaches its first await stays in `handlers` until its         *)
(* continuation has run; everything between two awaits is one atomic       *)
(* action, as on the single-threaded event loop.  Timers fire when due.    *)
(***************************************************************************)
EXTENDS Integers, Sequences, FiniteSets, TLC

\* ---------------------------------------------------------------- constants
INACTIVITY_THRESHOLD == 30 * 1000
MIN_SESSION_MS == 5000
BATCH_SIZE == 10
BATCH_TIMEOUT == 5000
EXEC_TIMEOUT == 5000
MS_PER_SECOND == 1000
MS_PER_DAY == 86400000
DEBOUNCE_MS == 300
DEFERRED_MS == 2000

\* ------------------------------------------------------------------- bounds
\* time passes in steps of TickMs, at most MaxTicks of them in one run
TickMs == EXEC_TIMEOUT
MaxTicks == 8
\* onActivity calls that may be suspended on a git query at the same time
MaxInFlight == 2
\* onActivity calls that reach the git queries in one run
MaxCalls == 3
\* size of the backward step of the wall clock
SkewMs == 1500
\* entries handed to a BatchUpdater driven on its own, and the half batch
\* windows that pass meanwhile
MaxAdds == 11
MaxWaits == 4
\* calls of the callback after which nobody calls flush() any more
MaxFlushes == 2
\* events the debounced sources raise in one run, the step in which time passes
\* between them, and the number of these steps
MaxSignals == 4
PauseMs == DEBOUNCE_MS \div 2
MaxPauses == 4
\* changes of the workspace folders in one run, and the seconds that pass
\* meanwhile
MaxRootChanges == 2
\* entries of the history a tracker is constructed over before it is queried
MaxHistory == 2
MaxSettles == 5

NULL == "null"
Repos == {"app", "lib"}
Branches == {"main", "feature"}
\* what the two git queries of one call may answer
Resolutions ==
  {<<"app", "main">>, <<"app", "feature">>, <<"lib", "main">>,
   <<NULL, NULL>>, <<NULL, "main">>, <<"app", NULL>>}
NoTimer == -1

\* the listeners that setupEventListeners() wraps in debounce()
Sources == {"changed", "saved", "opened", "editor"}

\* one debounced function for the events of all sources
DebouncerOf_Shared(source) == "shared"

\* the debounced function a source's events go to: setupEventListeners() makes
\* one for each
DebouncerOf(source) == source

Debouncers == {DebouncerOf(s) : s \in Sources}
NoCall == [due |-> NoTimer, event |-> NULL]

NoSession == [repository |-> NULL, branch |-> NULL, startTime |-> -1, lastActivity |-> -1]
NoStop == [by |-> "none", session |-> NoSession]
IoOutcomes == {"ok", "nopath", "writefail"}
\* what the constructor may find where the data file belongs
DataFiles == {"nopath", "missing", "unreadable", "corrupt", "json"}

VARIABLES
  clock,          \* monotonic time of the event loop
  wallOffset,     \* Date.now() - clock
  isDisposed,     \* GitBranchTimeTracker.isDisposed
  activeSession,  \* GitBranchTimeTracker.activeSession (NoSession for null)
  activityTimer,  \* GitBranchTimeTracker.activityTimer: the due time of the timeout
                  \* it holds, or NoTimer once that one has fired or is cleared
  armed,          \* due times of the inactivity timeouts that are set and have
                  \* neither fired nor been cleared
  timeData,       \* GitBranchTimeTracker.timeData, the in-memory history
  batch,          \* BatchUpdater.batch
  timeout,        \* BatchUpdater.timeout: the due time of the timeout it holds,
                  \* or NoTimer for null
  flushTimers,    \* due times of the BatchUpdater timeouts that are set and have
                  \* neither fired nor been cleared
  store,          \* content of git-branch-time-data.json
  handlers,       \* suspended onActivity calls, in the order they were made
  calls,          \* history variable: onActivity calls made before dispose()
  lastSignal,     \* history variable: clock of the latest of these calls, or -1
  quiet,          \* history variable: the window lost focus and no onActivity call
                  \* has reached the git queries since
  emitted,        \* history variable: entries handed to batchUpdater.add
  delivered,      \* history variable: the calls of the BatchUpdater callback, each
                  \* with the items it was given and what the file system did
  dataFile,       \* history variable: what loadTimeData() found at construction
  lastStop,       \* history variable: the step just taken, when it stopped a session,
                  \* and that session
  reply,          \* what the latest query returned
  debounced,      \* per debounced listener: the due time of its pending call and
                  \* the event that call will carry, or NoCall
  signalled,      \* history variable: per source, the events it has raised
  notified,       \* history variable: the onActivity() calls of the debounced
                  \* listeners, each with its source, its event and its time
  deferred,       \* due times of the pending checks of startInitialTracking()
  rootChanges,    \* history variable: onDidChangeWorkspaceFolders events so far
  direct          \* the direct-save GitBranchTimeTracker of extension.ts given the
                  \* same events: its timeData and the data file it writes, or
                  \* NoDirect where none is running

\* what the listeners of setupEventListeners() and startInitialTracking() keep
listening == <<debounced, signalled, notified, deferred, rootChanges>>

vars == <<clock, wallOffset, isDisposed, activeSession, activityTimer, armed, timeData,
          batch, timeout, flushTimers, store, handlers, calls, lastSignal, quiet, emitted, delivered,
          dataFile, lastStop, reply, listening, direct>>

\* ------------------------------------------------------------ pure helpers
Max(a, b) == IF a >= b THEN a ELSE b

\* Date.now()
Now == clock + wallOffset

\* new Date(t).toISOString().split("T")[0]: the UTC calendar day of t
IsoDate(t) == t \div MS_PER_DAY

\* the tracker's mutable fields as one record, so that the methods compose
Tracker ==
  [activeSession |-> activeSession, activityTimer |-> activityTimer, armed |-> armed,
   isDisposed |-> isDisposed, timeData |-> timeData, batch |-> batch,
   timeout |-> timeout, flushTimers |-> flushTimers, store |-> store, emitted |-> emitted, delivered |-> delivered]

\* loadTimeData() taking what is in a file it cannot read
LoadTimeData_Unreadable(file, content) ==
  IF file \in {"nopath", "missing", "corrupt"} THEN <<>> ELSE content

\* loadTimeData(): the history after construction, where content is what the
\* file holds when it is there and is JSON
LoadTimeData(file, content) ==
  IF file = "nopath"
    THEN <<>>
    ELSE IF file = "missing"
      THEN <<>>
      ELSE IF file \in {"unreadable", "corrupt"}
        THEN <<>>
        ELSE content

\* saveTimeDataBatch(entries) writing the file before it pushes the entries
SaveTimeDataBatch_WritesFirst(t, entries, io) ==
  IF io = "nopath"
    THEN t
    ELSE IF io = "writefail"
      THEN [t EXCEPT !.timeData = t.timeData \o entries]
      ELSE [t EXCEPT !.timeData = t.timeData \o entries,
                     !.store = t.timeData]

\* saveTimeDataBatch(entries) keeping the new entries only
SaveTimeDataBatch_Replaces(t, entries, io) ==
  IF io = "nopath"
    THEN t
    ELSE IF io = "writefail"
      THEN [t EXCEPT !.timeData = entries]
      ELSE [t EXCEPT !.timeData = entries, !.store = entries]

\* saveTimeDataBatch(entries); io is what the file system does on this call
SaveTimeDataBatch(t, entries, io) ==
  IF io = "nopath"
    THEN t
    ELSE IF io = "writefail"
      THEN [t EXCEPT !.timeData = t.timeData \o entries]
      ELSE [t EXCEPT !.timeData = t.timeData \o entries,
                     !.store = t.timeData \o entries]

\* clearTimeout(this.timeout) without this.timeout = null
ClearTimeout_KeepsHandle(t) ==
  [t EXCEPT !.flushTimers = t.flushTimers \ {t.timeout}]

\* if (this.timeout) { clearTimeout(this.timeout); this.timeout = null; }
ClearTimeout(t) ==
  [t EXCEPT !.flushTimers = t.flushTimers \ {t.timeout}, !.timeout = NoTimer]

\* this.timeout = setTimeout(() => this.flush(), this.batchTimeout)
SetTimeout(t) ==
  [t EXCEPT !.flushTimers = t.flushTimers \cup {clock + BATCH_TIMEOUT},
            !.timeout = clock + BATCH_TIMEOUT]

\* BatchUpdater.flush() leaving the batch as it is
Flush_KeepsBatch(t, io) ==
  LET saved == IF Len(t.batch) > 0
                 THEN [SaveTimeDataBatch(t, t.batch, io) EXCEPT
                         !.delivered = Append(t.delivered, [items |-> t.batch, io |-> io])]
                 ELSE t
  IN ClearTimeout(saved)

\* BatchUpdater.flush() leaving the timeout as it is
Flush_KeepsTimer(t, io) ==
  IF Len(t.batch) > 0
    THEN [SaveTimeDataBatch(t, t.batch, io) EXCEPT
            !.batch = <<>>,
            !.delivered = Append(t.delivered, [items |-> t.batch, io |-> io])]
    ELSE t

\* BatchUpdater.flush() calling back with an empty batch too
Flush_Unguarded(t, io) ==
  ClearTimeout([SaveTimeDataBatch(t, t.batch, io) EXCEPT
                  !.batch = <<>>,
                  !.delivered = Append(t.delivered, [items |-> t.batch, io |-> io])])

\* BatchUpdater.flush()
Flush(t, io) ==
  LET saved == IF Len(t.batch) > 0
                 THEN [SaveTimeDataBatch(t, t.batch, io) EXCEPT
                         !.batch = <<>>,
                         !.delivered = Append(t.delivered, [items |-> t.batch, io |-> io])]
                 ELSE t
  IN ClearTimeout(saved)

\* BatchUpdater.add(item) setting a new timeout with every item
Add_Rearm(t, item, io) ==
  LET pushed == [t EXCEPT !.batch = Append(t.batch, item)]
  IN IF Len(pushed.batch) >= BATCH_SIZE
       THEN Flush(pushed, io)
       ELSE SetTimeout(pushed)

\* BatchUpdater.add(item) flushing only above the batch size
Add_Over(t, item, io) ==
  LET pushed == [t EXCEPT !.batch = Append(t.batch, item)]
  IN IF Len(pushed.batch) > BATCH_SIZE
       THEN Flush(pushed, io)
       ELSE IF pushed.timeout = NoTimer
         THEN SetTimeout(pushed)
         ELSE pushed

\* BatchUpdater.add(item)
Add(t, item, io) ==
  LET pushed == [t EXCEPT !.batch = Append(t.batch, item)]
  IN IF Len(pushed.batch) >= BATCH_SIZE
       THEN Flush(pushed, io)
       ELSE IF pushed.timeout = NoTimer
         THEN SetTimeout(pushed)
         ELSE pushed

SessionDuration(s) == Max(0, s.lastActivity - s.startTime)

\* the entry with Math.round in place of Math.floor
SessionEntry_Rounded(s) ==
  [date |-> IsoDate(s.startTime), repository |-> s.repository, branch |-> s.branch,
   duration |-> (SessionDuration(s) + MS_PER_SECOND \div 2) \div MS_PER_SECOND,
   startTime |-> s.startTime, endTime |-> s.lastActivity]

\* the entry ending when the session is stopped
SessionEntry_EndsNow(s) ==
  [date |-> IsoDate(s.startTime), repository |-> s.repository, branch |-> s.branch,
   duration |-> Max(0, Now - s.startTime) \div MS_PER_SECOND,
   startTime |-> s.startTime, endTime |-> Now]

SessionEntry(s) ==
  [date |-> IsoDate(s.startTime), repository |-> s.repository, branch |-> s.branch,
   duration |-> SessionDuration(s) \div MS_PER_SECOND,
   startTime |-> s.startTime, endTime |-> s.lastActivity]

\* stopCurrentSession() saving when it discards a session, too
StopCurrentSession_SavesDiscarded(t, io) ==
  IF t.activeSession = NoSession
    THEN t
    ELSE IF SessionDuration(t.activeSession) > MIN_SESSION_MS
      THEN [Add([t EXCEPT !.emitted = Append(t.emitted, SessionEntry(t.activeSession))],
                SessionEntry(t.activeSession), io)
              EXCEPT !.activeSession = NoSession]
      ELSE [SaveTimeDataBatch(t, <<>>, io) EXCEPT
              !.activeSession = NoSession,
              !.delivered = Append(t.delivered, [items |-> <<>>, io |-> io])]

\* stopCurrentSession() leaving the session in place
StopCurrentSession_KeepsSession(t, io) ==
  IF t.activeSession = NoSession
    THEN t
    ELSE IF SessionDuration(t.activeSession) > MIN_SESSION_MS
      THEN Add([t EXCEPT !.emitted = Append(t.emitted, SessionEntry(t.activeSession))],
               SessionEntry(t.activeSession), io)
      ELSE t

\* stopCurrentSession() keeping the sessions of exactly 5 seconds too
StopCurrentSession_AtLeast(t, io) ==
  IF t.activeSession = NoSession
    THEN t
    ELSE IF SessionDuration(t.activeSession) >= MIN_SESSION_MS
      THEN [Add([t EXCEPT !.emitted = Append(t.emitted, SessionEntry(t.activeSession))],
                SessionEntry(t.activeSession), io)
              EXCEPT !.activeSession = NoSession]
      ELSE [t EXCEPT !.activeSession = NoSession]

\* stopCurrentSession()
StopCurrentSession(t, io) ==
  IF t.activeSession = NoSession
    THEN t
    ELSE IF SessionDuration(t.activeSession) > MIN_SESSION_MS
      THEN [Add([t EXCEPT !.emitted = Append(t.emitted, SessionEntry(t.activeSession))],
                SessionEntry(t.activeSession), io)
              EXCEPT !.activeSession = NoSession]
      ELSE [t EXCEPT !.activeSession = NoSession]

\* startNewSession() reading the clock itself
StartNewSession_Now(t, repository, branch, startTime) ==
  [t EXCEPT !.activeSession =
     [repository |-> repository, branch |-> branch,
      startTime |-> Now, lastActivity |-> Now]]

\* startNewSession(repository, branch, startTime)
StartNewSession(t, repository, branch, startTime) ==
  [t EXCEPT !.activeSession =
     [repository |-> repository, branch |-> branch,
      startTime |-> startTime, lastActivity |-> startTime]]

\* if (this.activityTimer) clearTimeout(this.activityTimer)
ClearActivityTimer(t) ==
  [t EXCEPT !.armed = t.armed \ {t.activityTimer}, !.activityTimer = NoTimer]

\* resetActivityTimer() setting a timeout without clearing the one it holds
ResetActivityTimer_NoClear(t) ==
  [t EXCEPT !.armed = t.armed \cup {clock + INACTIVITY_THRESHOLD},
            !.activityTimer = clock + INACTIVITY_THRESHOLD]

\* resetActivityTimer()
ResetActivityTimer(t) ==
  LET cleared == ClearActivityTimer(t)
  IN [cleared EXCEPT !.armed = cleared.armed \cup {clock + INACTIVITY_THRESHOLD},
                     !.activityTimer = clock + INACTIVITY_THRESHOLD]

\* onActivity() comparing the branch only
AfterResolve_BranchOnly(t, now, currentRepo, currentBranch, io) ==
  IF currentRepo = NULL \/ currentBranch = NULL
    THEN t
    ELSE
      LET switched ==
            IF \/ t.activeSession = NoSession
               \/ t.activeSession.branch # currentBranch
              THEN StartNewSession(StopCurrentSession(t, io), currentRepo, currentBranch, now)
              ELSE t
          touched ==
            IF switched.activeSession # NoSession
              THEN [switched EXCEPT !.activeSession.lastActivity = now]
              ELSE switched
      IN ResetActivityTimer(touched)

\* onActivity() resetting the timer only for a session that was running
AfterResolve_NoArmOnStart(t, now, currentRepo, currentBranch, io) ==
  IF currentRepo = NULL \/ currentBranch = NULL
    THEN t
    ELSE
      IF \/ t.activeSession = NoSession
         \/ t.activeSession.repository # currentRepo
         \/ t.activeSession.branch # currentBranch
        THEN StartNewSession(StopCurrentSession(t, io), currentRepo, currentBranch, now)
        ELSE ResetActivityTimer([t EXCEPT !.activeSession.lastActivity = now])

\* onActivity() resetting the timer only when it starts a session
AfterResolve_NoRearm(t, now, currentRepo, currentBranch, io) ==
  IF currentRepo = NULL \/ currentBranch = NULL
    THEN t
    ELSE
      IF \/ t.activeSession = NoSession
         \/ t.activeSession.repository # currentRepo
         \/ t.activeSession.branch # currentBranch
        THEN ResetActivityTimer(
               StartNewSession(StopCurrentSession(t, io), currentRepo, currentBranch, now))
        ELSE [t EXCEPT !.activeSession.lastActivity = now]

\* onActivity() from the second await to its end
AfterResolve(t, now, currentRepo, currentBranch, io) ==
  IF currentRepo = NULL \/ currentBranch = NULL
    THEN t
    ELSE
      LET switched ==
            IF \/ t.activeSession = NoSession
               \/ t.activeSession.repository # currentRepo
               \/ t.activeSession.branch # currentBranch
              THEN StartNewSession(StopCurrentSession(t, io), currentRepo, currentBranch, now)
              ELSE t
          touched ==
            IF switched.activeSession # NoSession
              THEN [switched EXCEPT !.activeSession.lastActivity = now]
              ELSE switched
      IN ResetActivityTimer(touched)

\* getTimeData()
GetTimeData(t) == t.timeData

\* a branch name that is a property every object inherits from
\* Object.prototype; no date is one
Inherited == {"constructor"}

\* {}: the object literal, as a function of its own property names
EmptyObject == [k \in {} |-> 0]

\* !branches[entry.branch]: the object has no such property of its own and
\* inherits none (what it holds under a branch is an object, which is truthy)
NoObject(object, key) ==
  /\ key \notin Inherited
  /\ key \notin DOMAIN object

\* !branches[entry.branch][entry.date]: no such property, or the number 0
NoNumber(object, key) ==
  \/ key \notin DOMAIN object
  \/ object[key] = 0

\* the body of the forEach of getStatsForRepository() for one entry; what is
\* written through an inherited property does not reach the object returned
Accumulate(branches, entry) ==
  LET made == IF NoObject(branches, entry.branch)
                THEN (entry.branch :> EmptyObject) @@ branches
                ELSE branches
  IN IF entry.branch \notin DOMAIN made
       THEN made
       ELSE LET zeroed == IF NoNumber(made[entry.branch], entry.date)
                            THEN (entry.date :> 0) @@ made[entry.branch]
                            ELSE made[entry.branch]
            IN [made EXCEPT ![entry.branch] =
                  [zeroed EXCEPT ![entry.date] = @ + entry.duration]]

RECURSIVE ForEach(_, _)
\* repoData.forEach(...) over the object built so far
ForEach(repoData, branches) ==
  IF repoData = <<>>
    THEN branches
    ELSE ForEach(Tail(repoData), Accumulate(branches, Head(repoData)))

\* getStatsForRepository(repository)
GetStatsForRepository(t, repository) ==
  LET Matches(entry) == entry.repository = repository
  IN ForEach(SelectSeq(t.timeData, Matches), EmptyObject)

\* write the tracker record back to the variables
Commit(t) ==
  /\ activeSession' = t.activeSession
  /\ activityTimer' = t.activityTimer
  /\ armed' = t.armed
  /\ isDisposed' = t.isDisposed
  /\ timeData' = t.timeData
  /\ batch' = t.batch
  /\ timeout' = t.timeout
  /\ flushTimers' = t.flushTimers
  /\ store' = t.store
  /\ emitted' = t.emitted
  /\ delivered' = t.delivered

\* s without its i-th element
RemoveAt(s, i) == SubSeq(s, 1, i - 1) \o SubSeq(s, i + 1, Len(s))

\* no direct-save tracker
NoDirect == [running |-> FALSE, timeData |-> <<>>, store |-> <<>>]

\* the direct-save tracker after construction over a data file in the given state
DirectTracker(file, content) ==
  [running |-> TRUE, timeData |-> LoadTimeData(file, content),
   store |-> IF file \in {"unreadable", "json"} THEN content ELSE <<>>]

\* saveTimeData() of the direct-save tracker
SaveTimeData(d, io) ==
  IF io = "ok" THEN [d EXCEPT !.store = d.timeData] ELSE d

\* what stopCurrentSession() of the direct-save tracker, stopping the given
\* session, does to its history and its file
DirectStopCurrentSession(d, session, io) ==
  IF session = NoSession
    THEN d
    ELSE IF SessionDuration(session) > MIN_SESSION_MS
      THEN SaveTimeData([d EXCEPT !.timeData = Append(d.timeData, SessionEntry(session))], io)
      ELSE d

\* resetData() of the direct-save tracker
DirectResetData(d, session, io) ==
  SaveTimeData(DirectStopCurrentSession([d EXCEPT !.timeData = <<>>], session, io), io)

\* the direct-save tracker, whose sessions are those of the batched one, taking
\* the step of handler `by`; it is the reference, and its file system works
DirectDid(by, stops) ==
  direct' = IF ~direct.running
              THEN direct
              ELSE IF by = "ResetData"
                THEN DirectResetData(direct, activeSession, "ok")
                ELSE IF stops
                  THEN DirectStopCurrentSession(direct, activeSession, "ok")
                  ELSE direct

\* every due time the event loop still has to honour
DueTimes ==
  armed
    \cup flushTimers
    \cup {handlers[h].due : h \in DOMAIN handlers}
    \cup {debounced[l].due : l \in {k \in DOMAIN debounced : debounced[k] # NoCall}}
    \cup {deferred[i] : i \in DOMAIN deferred}

\* ------------------------------------------------------------------ actions
\* the tracker after construction over a data file in the given state, with
\* the given deferred checks pending
Constructor(file, content, checks) ==
  /\ clock = 0
  /\ wallOffset = 0
  /\ isDisposed = FALSE
  /\ activeSession = NoSession
  /\ activityTimer = NoTimer
  /\ armed = {}
  /\ timeData = LoadTimeData(file, content)
  /\ batch = <<>>
  /\ timeout = NoTimer
  /\ flushTimers = {}
  /\ store = IF file \in {"unreadable", "json"} THEN content ELSE <<>>
  /\ handlers = <<>>
  /\ calls = 0
  /\ lastSignal = -1
  /\ quiet = FALSE
  /\ emitted = <<>>
  /\ delivered = <<>>
  /\ dataFile = file
  /\ lastStop = NoStop
  /\ reply = NULL
  /\ debounced = [l \in Debouncers |-> NoCall]
  /\ signalled = [s \in Sources |-> 0]
  /\ notified = <<>>
  /\ deferred = checks
  /\ rootChanges = 0

\* the same where the deferred check of startInitialTracking() is left to the
\* onActivity() calls of the specification
InitWith(file, content) == Constructor(file, content, <<>>) /\ direct = NoDirect

\* the tracker after construction without a data file
Init == InitWith("missing", <<>>)

\* The file system is consulted only inside saveTimeDataBatch: an outcome other
\* than "ok" is a different step only when it changes what the handler leaves.
Handle(result(_)) ==
  \E io \in IoOutcomes :
    /\ io = "ok" \/ result(io) # result("ok")
    /\ Commit(result(io))

\* the history of a step of handler `by`, which calls stopCurrentSession() if stops
Did(by, stops) ==
  /\ lastStop' = IF stops /\ activeSession # NoSession
                   THEN [by |-> by, session |-> activeSession]
                   ELSE NoStop
  /\ DirectDid(by, stops)

\* time passes; no timer and no git query is left behind
Tick ==
  /\ clock + TickMs <= MaxTicks * TickMs
  /\ \A d \in DueTimes : clock + TickMs <= d
  /\ clock' = clock + TickMs
  /\ Did("Tick", FALSE)
  /\ UNCHANGED <<wallOffset, isDisposed, activeSession, activityTimer, armed, timeData, batch,
                 timeout, flushTimers, store, handlers, calls, lastSignal, quiet, emitted,
                 delivered, dataFile, reply, listening>>

\* the wall clock is set back
ClockStepsBack ==
  /\ wallOffset = 0
  /\ wallOffset' = -SkewMs
  /\ Did("ClockStepsBack", FALSE)
  /\ UNCHANGED <<clock, isDisposed, activeSession, activityTimer, armed, timeData, batch,
                 timeout, flushTimers, store, handlers, calls, lastSignal, quiet, emitted,
                 delivered, dataFile, reply, listening>>

\* onActivity() up to its first await; folder is getActiveWorkspaceFolder() # null.
\* Nothing of the tracker is read or written between the await of
\* getCurrentRepository() and that of getCurrentBranch(), so the two are one
\* suspension that ends at most two exec timeouts after the call.
Begin(folder) ==
  IF isDisposed
    THEN UNCHANGED <<handlers, calls, lastSignal, quiet>>
    ELSE /\ calls' = calls + 1
         /\ lastSignal' = clock
         /\ IF folder
              THEN /\ Len(handlers) < MaxInFlight
                   /\ handlers' = Append(handlers,
                                         [now |-> Now, due |-> clock + 2 * EXEC_TIMEOUT])
                   /\ quiet' = FALSE
              ELSE UNCHANGED <<handlers, quiet>>

\* a call of onActivity() by whatever listener
OnActivity(folder) ==
  /\ Did("OnActivity", FALSE)
  /\ Begin(folder)
  /\ UNCHANGED <<clock, wallOffset, isDisposed, activeSession, activityTimer, armed, timeData,
                 batch, timeout, flushTimers, store, emitted, delivered, dataFile, reply, listening>>

\* both git queries of call h have settled and onActivity() runs to its end
Resolved(h, r, b) ==
  /\ h \in DOMAIN handlers
  /\ Did("Resolved", /\ r # NULL
                      /\ b # NULL
                      /\ (activeSession.repository # r \/ activeSession.branch # b))
  /\ LET result(io) == AfterResolve(Tracker, handlers[h].now, r, b, io)
     IN Handle(result)
  /\ handlers' = RemoveAt(handlers, h)
  /\ UNCHANGED <<clock, wallOffset, calls, lastSignal, quiet, dataFile, reply, listening>>

\* the inactivity timeout set by resetActivityTimer() fires
InactivityTimeout ==
  \E d \in armed :
    /\ clock >= d
    /\ Did("InactivityTimeout", TRUE)
    /\ LET result(io) ==
             [StopCurrentSession(Tracker, io)
                EXCEPT !.armed = @ \ {d},
                       !.activityTimer = IF @ = d THEN NoTimer ELSE @]
       IN Handle(result)
  /\ UNCHANGED <<clock, wallOffset, handlers, calls, lastSignal, quiet, dataFile, reply, listening>>

\* the timeout set by BatchUpdater.add() fires
BatchTimeout ==
  \E d \in flushTimers :
    /\ clock >= d
    /\ Did("BatchTimeout", FALSE)
    /\ LET result(io) == Flush([Tracker EXCEPT !.flushTimers = @ \ {d}], io)
       IN Handle(result)
  /\ UNCHANGED <<clock, wallOffset, handlers, calls, lastSignal, quiet, dataFile, reply, listening>>

\* onDidChangeWindowState(state) with state.focused = focused
WindowStateChanged(focused) ==
  /\ Did("WindowLostFocus", ~focused)
  /\ IF focused
       THEN UNCHANGED <<activeSession, activityTimer, armed, isDisposed, timeData, batch,
                        timeout, flushTimers, store, emitted, delivered, quiet>>
       ELSE /\ LET result(io) == StopCurrentSession(Tracker, io)
               IN Handle(result)
            /\ quiet' = TRUE
  /\ UNCHANGED <<clock, wallOffset, handlers, calls, lastSignal, dataFile, reply, listening>>

\* resetData()
ResetData ==
  /\ Did("ResetData", TRUE)
  /\ LET result(io) == Flush(StopCurrentSession([Tracker EXCEPT !.timeData = <<>>], io), io)
     IN Handle(result)
  /\ UNCHANGED <<clock, wallOffset, handlers, calls, lastSignal, quiet, dataFile, reply, listening>>

\* dispose()
Dispose ==
  /\ ~isDisposed
  /\ Did("Dispose", TRUE)
  /\ LET result(io) ==
           Flush(ClearActivityTimer(StopCurrentSession([Tracker EXCEPT !.isDisposed = TRUE],
                                                       io)), io)
     IN Handle(result)
  /\ UNCHANGED <<clock, wallOffset, handlers, calls, lastSignal, quiet, dataFile, reply, listening>>

\* the n-th item handed to a BatchUpdater<TimeEntry>
Item(n) ==
  [date |-> 0, repository |-> "app", branch |-> "main", duration |-> n,
   startTime |-> 0, endTime |-> n * MS_PER_SECOND]

\* batchUpdater.add(entry), as stopCurrentSession() calls it
Submit ==
  /\ Len(emitted) < MaxAdds
  /\ Did("Submit", FALSE)
  /\ LET item == Item(Len(emitted) + 1)
         result(io) == Add([Tracker EXCEPT !.emitted = Append(emitted, item)], item, io)
     IN Handle(result)
  /\ UNCHANGED <<clock, wallOffset, handlers, calls, lastSignal, quiet, dataFile, reply, listening>>

\* batchUpdater.flush(), as resetData() calls it, and dispose() through
\* BatchUpdater.dispose()
FlushNow ==
  /\ Len(delivered) < MaxFlushes
  /\ lastStop' = [by |-> "FlushNow", session |-> NoSession]
  /\ UNCHANGED direct
  /\ LET result(io) == Flush(Tracker, io)
     IN Handle(result)
  /\ UNCHANGED <<clock, wallOffset, handlers, calls, lastSignal, quiet, dataFile, reply, listening>>

\* half a batch window passes; no timer is left behind
Wait ==
  /\ clock + BATCH_TIMEOUT \div 2 <= MaxWaits * (BATCH_TIMEOUT \div 2)
  /\ \A d \in DueTimes : clock + BATCH_TIMEOUT \div 2 <= d
  /\ clock' = clock + BATCH_TIMEOUT \div 2
  /\ Did("Wait", FALSE)
  /\ UNCHANGED <<wallOffset, isDisposed, activeSession, activityTimer, armed, timeData, batch,
                 timeout, flushTimers, store, handlers, calls, lastSignal, quiet, emitted,
                 delivered, dataFile, reply, listening>>

\* ms pass, up to the horizon; no timer and no git query is left behind
Pass(ms, horizon) ==
  /\ clock + ms <= horizon
  /\ \A d \in DueTimes : clock + ms <= d
  /\ clock' = clock + ms
  /\ Did("Pass", FALSE)
  /\ UNCHANGED <<wallOffset, isDisposed, activeSession, activityTimer, armed, timeData,
                 batch, timeout, flushTimers, store, handlers, calls, lastSignal, quiet, emitted,
                 delivered, dataFile, reply, listening>>

\* half a debounce window passes
Pause == Pass(PauseMs, MaxPauses * PauseMs)

\* debounce(fn, wait): the function it returns is called with an event while
\* `pending` is its pending call; the call it then has pending
Debounce(pending, event, wait) ==
  [due |-> clock + wait, event |-> event]

\* a listener registered with no wait
Debounced_NoWait(pending, event) == Debounce(pending, event, 0)

\* debounce(listener, 300), as setupEventListeners() registers its listeners
Debounced(pending, event) == Debounce(pending, event, DEBOUNCE_MS)

\* the pending calls that carry an event of the source, in the debouncers db
PendingOf(db, source) ==
  {db[l] : l \in {k \in DOMAIN db : db[k] # NoCall /\ db[k].event.source = source}}

\* the source raises an event; file is whether the event passes the test of
\* the source's listener (a document of scheme "file" and, for a change, a
\* non-empty one)
Signal(source, file) ==
  /\ signalled["changed"] + signalled["saved"] + signalled["opened"] + signalled["editor"]
       < MaxSignals
  /\ signalled' = [signalled EXCEPT ![source] = @ + 1]
  /\ debounced' =
       [debounced EXCEPT ![DebouncerOf(source)] =
          Debounced(@, [source |-> source, n |-> signalled[source] + 1,
                        raised |-> clock, file |-> file])]
  /\ Did("Signal", FALSE)
  /\ UNCHANGED <<clock, wallOffset, isDisposed, activeSession, activityTimer, armed,
                 timeData, batch, timeout, flushTimers, store, handlers, calls, lastSignal, quiet,
                 emitted, delivered, dataFile, reply, notified, deferred, rootChanges>>

\* the pending call of debounced listener l is due: the listener runs with the
\* event of that call and, if the event passes its test, calls onActivity()
Deliver(l, folder) ==
  /\ debounced[l] # NoCall
  /\ clock >= debounced[l].due
  /\ debounced' = [debounced EXCEPT ![l] = NoCall]
  /\ notified' = Append(notified,
                        [source |-> debounced[l].event.source, n |-> debounced[l].event.n,
                         raised |-> debounced[l].event.raised, at |-> clock,
                         activity |-> debounced[l].event.file])
  /\ IF debounced[l].event.file
       THEN Begin(folder)
       ELSE /\ ~folder
            /\ UNCHANGED <<handlers, calls, lastSignal, quiet>>
  /\ Did("Deliver", FALSE)
  /\ UNCHANGED <<clock, wallOffset, isDisposed, activeSession, activityTimer, armed,
                 timeData, batch, timeout, flushTimers, store, emitted, delivered, dataFile, reply,
                 signalled, deferred, rootChanges>>

\* a caller asks for the statistics of a repository
Query(repository) ==
  /\ reply' = [repository |-> repository,
               stats |-> GetStatsForRepository(Tracker, repository)]
  /\ lastStop' = [by |-> "Query", session |-> NoSession]
  /\ UNCHANGED direct
  /\ UNCHANGED <<clock, wallOffset, isDisposed, activeSession, activityTimer, armed,
                 timeData, batch, timeout, flushTimers, store, handlers, calls, lastSignal, quiet,
                 emitted, delivered, dataFile, listening>>

\* startInitialTracking() with no delay
StartInitialTracking_AtOnce(checks) == Append(checks, clock)

\* startInitialTracking(): the pending checks after it
StartInitialTracking(checks) == Append(checks, clock + DEFERRED_MS)

\* onDidChangeWorkspaceFolders
WorkspaceFoldersChanged ==
  /\ rootChanges < MaxRootChanges
  /\ rootChanges' = rootChanges + 1
  /\ deferred' = StartInitialTracking(deferred)
  /\ Did("WorkspaceFoldersChanged", FALSE)
  /\ UNCHANGED <<clock, wallOffset, isDisposed, activeSession, activityTimer, armed,
                 timeData, batch, timeout, flushTimers, store, handlers, calls, lastSignal, quiet,
                 emitted, delivered, dataFile, reply, debounced, signalled, notified>>

\* the timeout of startInitialTracking() fires; the checks wait equally long,
\* so the one set first is the one due first
DeferredCheck(folder) ==
  /\ deferred # <<>>
  /\ clock >= Head(deferred)
  /\ deferred' = Tail(deferred)
  /\ IF ~isDisposed
       THEN Begin(folder)
       ELSE /\ ~folder
            /\ UNCHANGED <<handlers, calls, lastSignal, quiet>>
  /\ Did("DeferredCheck", FALSE)
  /\ UNCHANGED <<clock, wallOffset, isDisposed, activeSession, activityTimer, armed,
                 timeData, batch, timeout, flushTimers, store, emitted, delivered, dataFile, reply,
                 debounced, signalled, notified, rootChanges>>

\* a second passes
Settle == Pass(MS_PER_SECOND, MaxSettles * MS_PER_SECOND)

\* the tracker under a wall clock that never steps back, without resetData()
Next ==
  \/ Tick
  \/ \E folder \in BOOLEAN : calls < MaxCalls /\ OnActivity(folder)
  \/ \E h \in 1..MaxInFlight, rb \in Resolutions : Resolved(h, rb[1], rb[2])
  \/ InactivityTimeout
  \/ BatchTimeout
  \/ \E focused \in BOOLEAN : WindowStateChanged(focused)
  \/ Dispose

Spec == Init /\ [][Next]_vars

\* the same with the reset command
NextReset ==
  \/ Next
  \/ ResetData

SpecReset == Init /\ [][NextReset]_vars

\* the tracker under a wall clock that steps back once, at any moment; every
\* call finds a folder, and there is neither reset nor dispose
NextSkew ==
  \/ Tick
  \/ ClockStepsBack
  \/ calls < MaxCalls /\ OnActivity(TRUE)
  \/ \E h \in 1..MaxInFlight, rb \in {<<"app", "main">>, <<"app", "feature">>, <<NULL, NULL>>} :
       Resolved(h, rb[1], rb[2])
  \/ InactivityTimeout
  \/ BatchTimeout
  \/ WindowStateChanged(FALSE)

SpecSkew == Init /\ [][NextSkew]_vars

\* the tracker under a stream of calls that all find a folder and resolve to
\* app/main, each less than INACTIVITY_THRESHOLD after the one before it, until
\* the calls end or the window loses its focus
SteadyCall ==
  /\ calls < MaxCalls
  /\ ~quiet
  /\ lastSignal # -1 => clock - lastSignal < INACTIVITY_THRESHOLD
  /\ OnActivity(TRUE)

NextSteady ==
  \/ Tick
  \/ SteadyCall
  \/ \E h \in 1..MaxInFlight : Resolved(h, "app", "main")
  \/ InactivityTimeout
  \/ BatchTimeout
  \/ WindowStateChanged(FALSE)

SpecSteady == Init /\ [][NextSteady]_vars

\* the tracker under one more call, each finding a folder and a branch, with
\* the window focused and neither reset nor dispose
NextRace ==
  \/ Tick
  \/ calls < MaxCalls + 1 /\ OnActivity(TRUE)
  \/ \E h \in 1..MaxInFlight, b \in Branches : Resolved(h, "app", b)
  \/ InactivityTimeout
  \/ BatchTimeout

SpecRace == Init /\ [][NextRace]_vars

\* the tracker constructed over any data file, then used in one workspace on
\* one branch
InitLoad ==
  \E file \in DataFiles, content \in {<<>>, <<Item(1)>>, <<Item(1), Item(2)>>} :
    InitWith(file, content)

NextLoad ==
  \/ Tick
  \/ calls < MaxCalls /\ OnActivity(TRUE)
  \/ \E h \in 1..MaxInFlight : Resolved(h, "app", "main")
  \/ InactivityTimeout
  \/ BatchTimeout
  \/ WindowStateChanged(FALSE)

SpecLoad == InitLoad /\ [][NextLoad]_vars

\* the tracker in the scenario of two calls, at 0 s and at 10 s, each made
\* when the one before has been handled, both resolving to app/main after any
\* delay, and nothing else but time and the inactivity timeout, which ends the
\* scenario (the batch timeout it sets is due 5 s after that)
ScenarioCall ==
  /\ calls < 2
  /\ clock = calls * 10 * MS_PER_SECOND
  /\ handlers = <<>>
  /\ OnActivity(TRUE)

NextScenario ==
  \/ Tick
  \/ Wait
  \/ ScenarioCall
  \/ \E h \in 1..MaxInFlight : Resolved(h, "app", "main")
  \/ InactivityTimeout

SpecScenario == Init /\ [][NextScenario]_vars

\* the tracker in one repository, every call finding a folder and a branch,
\* under every trigger that stops a session: branch switch, inactivity
\* timeout, focus loss, resetData() and dispose()
NextStops ==
  \/ Tick
  \/ calls < MaxCalls /\ OnActivity(TRUE)
  \/ \E h \in 1..MaxInFlight, b \in Branches : Resolved(h, "app", b)
  \/ InactivityTimeout
  \/ BatchTimeout
  \/ WindowStateChanged(FALSE)
  \/ ResetData
  \/ Dispose

SpecStops == Init /\ [][NextStops]_vars

\* the tracker constructed over any data file, used in one workspace on one
\* branch and disposed of at any time
NextHistory ==
  \/ NextLoad
  \/ Dispose

SpecHistory == InitLoad /\ [][NextHistory]_vars

\* the BatchUpdater of the tracker on its own: entries are handed to it at any
\* time and it is flushed at any time
NextBatch ==
  \/ Submit
  \/ FlushNow
  \/ BatchTimeout
  \/ Wait

SpecBatch == Init /\ [][NextBatch]_vars

\* the listeners of the four debounced sources under events of any source at
\* any moment, in a window that has no workspace folder
NextDebounce ==
  \/ Pause
  \/ \E source \in Sources, file \in BOOLEAN : Signal(source, file)
  \/ \E l \in Debouncers : Deliver(l, FALSE)

SpecDebounce == Init /\ [][NextDebounce]_vars

\* the tracker from its construction on, with the check that the constructor
\* defers and those of the workspace folder changes as its only activity
InitStartup == Constructor("missing", <<>>, StartInitialTracking(<<>>)) /\ direct = NoDirect

NextStartup ==
  \/ Settle
  \/ WorkspaceFoldersChanged
  \/ \E folder \in BOOLEAN : DeferredCheck(folder)
  \/ \E h \in 1..MaxInFlight, rb \in {<<"app", "main">>, <<NULL, NULL>>} :
       Resolved(h, rb[1], rb[2])
  \/ Dispose

SpecStartup == InitStartup /\ [][NextStartup]_vars

\* an entry of a data file
StatsEntry(repository, branch, date, duration) ==
  [date |-> date, repository |-> repository, branch |-> branch, duration |-> duration,
   startTime |-> date * MS_PER_DAY, endTime |-> date * MS_PER_DAY + duration * MS_PER_SECOND]

StatsEntries ==
  {StatsEntry("app", "main", 0, 5), StatsEntry("app", "main", 0, 7),
   StatsEntry("app", "main", 1, 5), StatsEntry("app", "feature", 0, 5),
   StatsEntry("lib", "main", 0, 5), StatsEntry("app", "constructor", 0, 5)}

\* the tracker constructed over a data file of up to MaxHistory entries, used
\* for two calls on app/main and queried at any moment
InitStats ==
  \E n \in 0..MaxHistory : \E content \in [1..n -> StatsEntries] :
    InitWith("json", content)

NextStats ==
  \/ Tick
  \/ calls < 2 /\ OnActivity(TRUE)
  \/ \E h \in 1..MaxInFlight : Resolved(h, "app", "main")
  \/ InactivityTimeout
  \/ BatchTimeout
  \/ WindowStateChanged(FALSE)
  \/ \E repository \in Repos : Query(repository)

SpecStats == InitStats /\ [][NextStats]_vars

\* ------------------------------------------------------------------- claims
Min(a, b) == IF a <= b THEN a ELSE b

\* two time intervals share more than a point
Overlap(s1, e1, s2, e2) == Max(s1, s2) < Min(e1, e2)

\* C1: no time is double-counted: the intervals [startTime, endTime] of two
\* emitted entries never overlap, and no emitted entry overlaps the interval
\* [startTime, lastActivity] of the active session.
C1_NoDoubleCounting ==
  /\ \A i, j \in DOMAIN emitted :
        i < j => ~Overlap(emitted[i].startTime, emitted[i].endTime,
                          emitted[j].startTime, emitted[j].endTime)
  /\ \A i \in DOMAIN emitted :
        activeSession # NoSession =>
          ~Overlap(emitted[i].startTime, emitted[i].endTime,
                   activeSession.startTime, activeSession.lastActivity)

\* what stopCurrentSession() has to hand to the batch for session s
Expected(s) ==
  IF s.lastActivity - s.startTime > 5000
    THEN <<[date |-> s.startTime \div 86400000, repository |-> s.repository,
            branch |-> s.branch, duration |-> (s.lastActivity - s.startTime) \div 1000,
            startTime |-> s.startTime, endTime |-> s.lastActivity]>>
    ELSE <<>>

\* C2: while the calls all resolve to the same attribution, follow each other
\* by less than 30 s and the window keeps its focus, the session stays the same
\* (same startTime) and no entry is emitted; the inactivity timeout or the
\* focus loss that ends it emits exactly one entry if lastActivity - startTime
\* exceeds 5 s, and none otherwise.
C2_SteadyStream ==
  [][activeSession # NoSession =>
       /\ (~quiet' /\ clock' - lastSignal' < INACTIVITY_THRESHOLD) =>
             /\ activeSession' # NoSession
             /\ activeSession'.startTime = activeSession.startTime
             /\ emitted' = emitted
       /\ lastStop'.by \in {"InactivityTimeout", "WindowLostFocus"} =>
             /\ activeSession' = NoSession
             /\ emitted' = emitted \o Expected(activeSession)]_vars

\* C3: a call that resumes while Tracking(repo, branch) with a different
\* (repo', branch') stops the old session (entry iff lastActivity - startTime
\* exceeds 5 s) and starts the session for (repo', branch') with startTime =
\* lastActivity = the call's own timestamp, all in the one step.
C3_SwitchInOneTurn ==
  [][\A h \in DOMAIN handlers, r \in Repos, b \in Branches :
       (/\ activeSession # NoSession
        /\ activeSession.repository # r \/ activeSession.branch # b
        /\ Resolved(h, r, b)) =>
         /\ activeSession' = [repository |-> r, branch |-> b,
                              startTime |-> handlers[h].now,
                              lastActivity |-> handlers[h].now]
         /\ emitted' = emitted \o Expected(activeSession)]_vars

\* a call has just switched the repository and the old session was emitted
C3_Witness ==
  /\ lastStop.by = "Resolved"
  /\ activeSession # NoSession
  /\ activeSession.repository # lastStop.session.repository
  /\ activeSession.startTime = activeSession.lastActivity
  /\ Expected(lastStop.session) # <<>>
  /\ emitted # <<>>
  /\ <<emitted[Len(emitted)]>> = Expected(lastStop.session)

WellFormed(e) ==
  /\ e.endTime >= e.startTime
  /\ e.duration >= 0
  /\ e.duration = (e.endTime - e.startTime) \div 1000

\* C4: every entry submitted to the batch, held in the history or written to
\* the store has endTime >= startTime, duration >= 0 and
\* duration = floor((endTime - startTime) / 1000), also when the wall clock
\* steps back and when calls resume out of order.
C4_EntriesWellFormed ==
  \A q \in {emitted, batch, timeData, store} : \A i \in DOMAIN q : WellFormed(q[i])

\* the wall clock has stepped back and the store holds an entry whose length
\* is no whole number of seconds
C4_Witness ==
  /\ wallOffset # 0
  /\ \E i \in DOMAIN store : (store[i].endTime - store[i].startTime) % 1000 # 0

\* C5: stopCurrentSession() on a session with lastActivity - startTime <= 5000
\* (a negative difference included) submits nothing and leaves batch, history
\* and store as they are; on a longer session it submits exactly one entry with
\* the session's repository, branch, startTime and endTime = lastActivity.  The
\* session is cleared either way (a switching call then starts the next one).
C5_StopProcedure ==
  [][lastStop'.by # "none" =>
       /\ lastStop'.session = activeSession
       /\ emitted' = emitted \o Expected(activeSession)
       /\ lastStop'.by # "Dispose" =>
             /\ batch' = batch \o Expected(activeSession)
             /\ timeData' = timeData
             /\ store' = store
       /\ IF lastStop'.by = "Resolved"
            THEN /\ activeSession' # activeSession
                 /\ activeSession'.startTime = activeSession'.lastActivity
            ELSE activeSession' = NoSession]_vars

\* a session whose lastActivity lies before its startTime has just been
\* stopped and discarded
C5_WitnessNegative ==
  /\ lastStop.by # "none"
  /\ lastStop.session.lastActivity < lastStop.session.startTime
  /\ activeSession = NoSession
  /\ emitted = <<>>

\* C6: when the inactivity timer fires and stops the session, the tracker has
\* received no activity signal during the 30 000 ms before (a signal whose git
\* queries are still running counts), and the timer fires exactly
\* INACTIVITY_THRESHOLD after the session's lastActivity.
C6_GenuineGap ==
  [][lastStop'.by = "InactivityTimeout" =>
       /\ lastSignal = -1 \/ clock - lastSignal >= 30 * 1000
       /\ Now = activeSession.lastActivity + 30 * 1000]_vars

\* C7: a focus loss stops the session in its own step, and the step that
\* follows a focus loss which stopped a session leaves the tracker without a
\* session when no activity signal has arrived since: regaining focus and a
\* call made before the focus loss create none.
C7_IdleAfterFocusLoss ==
  [][/\ lastStop'.by = "WindowLostFocus" => activeSession' = NoSession
     /\ (lastStop.by = "WindowLostFocus" /\ quiet) => activeSession' = NoSession]_vars

\* C8: an activity call that finds no workspace folder, or whose repository or
\* branch query returns null, while a session is active, leaves no session.
C8_FailureStops ==
  [][(/\ activeSession # NoSession
      /\ ~isDisposed
      /\ \/ OnActivity(FALSE)
         \/ \E h \in DOMAIN handlers : \E rb \in Resolutions :
              (rb[1] = NULL \/ rb[2] = NULL) /\ Resolved(h, rb[1], rb[2]))
       => activeSession' = NoSession]_vars

\* C9: once dispose() has been called no session exists any more and nothing of
\* the tracker changes, whether an activity call is made after dispose() or a
\* call suspended on its git queries at dispose() resumes.
C9_DisposedIsInert ==
  [][isDisposed =>
       /\ activeSession' = NoSession
       /\ UNCHANGED <<activeSession, activityTimer, armed, timeData, batch, timeout, store,
                      emitted>>]_vars

\* C10: after dispose() there is no session, neither the inactivity timer nor
\* the batch timer is armed, the batch is empty, and every entry emitted so far
\* is in the history, which is what the store holds.
C10_DisposeLeavesNothing ==
  isDisposed =>
    /\ activeSession = NoSession
    /\ activityTimer = NoTimer
    /\ timeout = NoTimer
    /\ batch = <<>>
    /\ timeData = emitted
    /\ store = timeData

\* the elements of a sequence
Range(q) == {q[i] : i \in DOMAIN q}

\* C11: resetData() followed at once by getTimeData() gives the empty
\* sequence, whatever the history, the batch and the session were, and the
\* session that was active is gone with no entry for it in history or store.
C11_ResetEmptiesHistory ==
  [][ResetData =>
       /\ GetTimeData(Tracker') = <<>>
       /\ activeSession' = NoSession
       /\ \A e \in Range(Expected(activeSession)) :
            e \notin Range(timeData') /\ e \notin Range(store')]_vars

\* C12: after resetData() the batch is empty, none of the entries it held has
\* moved into the history, and the store holds the empty sequence, also when
\* the batch was empty and no session was active.
C12_ResetClearsBatchAndStore ==
  [][ResetData =>
       /\ batch' = <<>>
       /\ \A e \in Range(batch) : e \notin Range(timeData')
       /\ store' = <<>>]_vars

\* C13: handing the 10th entry to a batch of 9 flushes once, inside that
\* submission, and the callback gets exactly the 10 entries in the order they
\* were handed over; a submission that leaves fewer than 10 entries flushes
\* nothing.  The batch is always the tail of what was submitted.
C13_SizeFlush ==
  [][emitted' # emitted =>
       LET item == emitted'[Len(emitted')]
       IN /\ batch = SubSeq(emitted, Len(emitted) - Len(batch) + 1, Len(emitted))
          /\ IF Len(batch) + 1 >= 10
               THEN /\ Len(delivered') = Len(delivered) + 1
                    /\ delivered'[Len(delivered')].items = Append(batch, item)
                    /\ batch' = <<>>
               ELSE /\ delivered' = delivered
                    /\ batch' = Append(batch, item)]_vars

\* ten entries handed over without a timer flush in between came back in one
\* call of the callback
C13_Witness ==
  /\ Len(delivered) = 1
  /\ Len(emitted) = 10
  /\ delivered[1].items = emitted
  /\ batch = <<>>

\* C14: the entry handed to an empty batch arms the timer for 5 s later;
\* further entries leave the timer where it is; when the timer fires, at that
\* time, the callback gets once every entry handed over since, and the batch
\* is empty.
C14_TimeFlush ==
  [][/\ (emitted' # emitted /\ batch = <<>> /\ batch' # <<>>) => timeout' = clock + 5000
     /\ (emitted' # emitted /\ batch # <<>> /\ batch' # <<>>) => timeout' = timeout
     /\ timeout' # NoTimer => clock' <= timeout'
     /\ (BatchTimeout /\ batch # <<>>) =>
           /\ clock = timeout
           /\ Len(delivered') = Len(delivered) + 1
           /\ delivered'[Len(delivered')].items = batch
           /\ batch' = <<>>
           /\ timeout' = NoTimer]_vars

\* when the window of the first entry has elapsed, the three entries handed
\* over since have been delivered in one call and no timer is armed
C14_Witness ==
  /\ clock = 5000
  /\ Len(delivered) = 1
  /\ delivered[1].items = emitted
  /\ Len(emitted) = 3
  /\ batch = <<>>
  /\ timeout = NoTimer
  /\ lastStop.by = "none"

\* C15: every flush, by size or by an explicit flush(), leaves no timer
\* armed, so that no timer armed before a flush calls the callback after it,
\* and only the submission of an entry to the empty batch arms a timer again.
C15_FlushCancelsTimer ==
  [][/\ (delivered' # delivered \/ FlushNow) => timeout' = NoTimer
     /\ timeout' # NoTimer => batch' # <<>>
     /\ (timeout = NoTimer /\ timeout' # NoTimer) =>
           (emitted' # emitted /\ batch = <<>> /\ Len(batch') = 1)]_vars

\* a flush by size while the timer was armed, and then a new entry that has
\* armed the timer again
C15_Witness ==
  /\ Len(delivered) = 1
  /\ Len(delivered[1].items) = 10
  /\ Len(batch) = 1
  /\ timeout = clock + 5000
  /\ clock > 0

\* C16: flush() on an empty batch calls no callback and changes neither the
\* history nor the store, and every flush() leaves the batch empty, so that
\* the second of two flush() calls in a row does nothing.
C16_FlushIdempotent ==
  [][FlushNow =>
       /\ batch' = <<>>
       /\ batch = <<>> => UNCHANGED <<delivered, timeData, store, batch, timeout>>]_vars

\* flush() has just run on a batch that was empty: nothing was ever handed
\* to the callback although time has passed
C16_Witness ==
  /\ lastStop.by = "FlushNow"
  /\ delivered = <<>>
  /\ batch = <<>>
  /\ clock > 0

RECURSIVE Pushed(_)
Pushed(d) ==
  IF d = <<>>
    THEN <<>>
    ELSE Pushed(SubSeq(d, 1, Len(d) - 1))
           \o (IF d[Len(d)].io = "nopath" THEN <<>> ELSE d[Len(d)].items)

\* C18: a tracker constructed over a data file that is missing, unreadable
\* or not JSON has an empty history and no session, and from there on it
\* works as usual: the history is what has been flushed since, and no call
\* made means no session.
C18_LoadFailureStartsEmpty ==
  dataFile \in {"missing", "unreadable", "corrupt"} =>
    /\ timeData = Pushed(delivered)
    /\ delivered = <<>> => timeData = <<>>
    /\ calls = 0 => activeSession = NoSession /\ batch = <<>> /\ activityTimer = NoTimer

\* a tracker constructed over a file that is not JSON has tracked a session
\* and written it to the store
C18_Witness ==
  /\ dataFile = "corrupt"
  /\ Len(timeData) = 1
  /\ timeData[1].duration = 10
  /\ store = timeData

\* both calls of the scenario have been handled and the inactivity timeout
\* has ended the session
ScenarioDone ==
  /\ calls = 2
  /\ handlers = <<>>
  /\ activeSession = NoSession

\* C19 as stated: the scenario produces exactly one entry, for app/main, with
\* startTime 0, endTime 40000 and duration 40.
C19_ScenarioAsStated ==
  ScenarioDone =>
    /\ Len(emitted) = 1
    /\ emitted[1].repository = "app" /\ emitted[1].branch = "main"
    /\ emitted[1].startTime = 0
    /\ emitted[1].endTime = 40000
    /\ emitted[1].duration = 40

\* C19 as amended: the scenario produces exactly one entry, for app/main,
\* with startTime 0, endTime 10000 (the last activity) and duration 10.
C19_Scenario ==
  ScenarioDone =>
    /\ Len(emitted) = 1
    /\ emitted[1].repository = "app" /\ emitted[1].branch = "main"
    /\ emitted[1].startTime = 0
    /\ emitted[1].endTime = 10000
    /\ emitted[1].duration = 10

\* the inactivity timeout of the scenario has just fired, at 40 s
C19_Witness ==
  /\ ScenarioDone
  /\ clock = 40000
  /\ lastStop.by = "InactivityTimeout"
  /\ Len(emitted) = 1

\* C20: an entry is only ever submitted for the session that is active, and
\* that session is gone in the same step, so no session yields two entries;
\* an inactivity timeout, focus loss, dispose() or resetData() that finds no
\* session submits nothing, and the first two of them change nothing at all.
C20_OneEntryPerSession ==
  [][/\ emitted' # emitted =>
          /\ activeSession # NoSession
          /\ emitted' = emitted \o Expected(activeSession)
          /\ activeSession' # activeSession
     /\ (activeSession = NoSession /\ (InactivityTimeout \/ WindowStateChanged(FALSE))) =>
          UNCHANGED <<activeSession, emitted, batch, timeData, store, delivered>>
     /\ (activeSession = NoSession /\ (Dispose \/ ResetData)) =>
          /\ activeSession' = NoSession
          /\ emitted' = emitted]_vars

\* the one session of a run with two calls was stopped with its entry, and
\* the focus loss and dispose() have both come
C20_Witness ==
  /\ calls = 2
  /\ handlers = <<>>
  /\ quiet
  /\ isDisposed
  /\ activeSession = NoSession
  /\ Len(emitted) = 1

\* everything the callback has been handed, in order
RECURSIVE Handed(_)
Handed(d) ==
  IF d = <<>> THEN <<>> ELSE Handed(SubSeq(d, 1, Len(d) - 1)) \o d[Len(d)].items

\* C21: after every add() and flush() the batch holds fewer than 10 entries,
\* and what the callback has been handed so far, followed by the batch, is
\* exactly what was submitted, in that order: nothing is delivered twice,
\* out of order, or both delivered and pending.
C21_BatchBoundedOrdered ==
  /\ Len(batch) < 10
  /\ Handed(delivered) \o batch = emitted

\* a flush by size and a later flush of the eleventh entry
C21_Witness ==
  /\ Len(delivered) = 2
  /\ Len(delivered[1].items) = 10
  /\ Len(delivered[2].items) = 1
  /\ Len(emitted) = 11
  /\ batch = <<>>

\* a is the beginning of b
IsPrefix(a, b) == Len(a) <= Len(b) /\ a = SubSeq(b, 1, Len(a))

C23_HistoryAppendOnly ==
  [][IsPrefix(timeData, timeData')]_vars

\* a tracker that loaded two entries has appended a third
C23_Witness ==
  /\ dataFile = "json"
  /\ Len(timeData) = 3
  /\ timeData[1] = Item(1)
  /\ timeData[2] = Item(2)
  /\ timeData[3].duration = 10

\* C27: when a call resumes while no session exists, a failed resolution
\* changes nothing of the tracker, and a successful one creates the session of
\* the resolved repository and branch with startTime = lastActivity = the time
\* read when the call was made, sets the inactivity timeout and submits nothing.
C27_IdleTransition ==
  [][\A h \in 1..MaxInFlight, rb \in Resolutions :
       activeSession = NoSession /\ Resolved(h, rb[1], rb[2]) =>
         IF rb[1] = NULL \/ rb[2] = NULL
           THEN UNCHANGED <<activeSession, activityTimer, armed, isDisposed, timeData,
                            batch, timeout, store, emitted, delivered>>
           ELSE /\ activeSession' =
                     [repository |-> rb[1], branch |-> rb[2],
                      startTime |-> handlers[h].now, lastActivity |-> handlers[h].now]
                /\ activityTimer' = clock + INACTIVITY_THRESHOLD
                /\ armed' = {clock + INACTIVITY_THRESHOLD}
                /\ UNCHANGED <<timeData, batch, timeout, store, emitted, delivered>>]_vars

\* the first call, made at 0 s, has resumed at 5 s and started a session
C27_Witness ==
  /\ calls = 1
  /\ handlers = <<>>
  /\ clock = 5000
  /\ activeSession = [repository |-> "app", branch |-> "main",
                      startTime |-> 0, lastActivity |-> 0]
  /\ activityTimer = 35000

\* C28: when a call resumes while a session exists and resolves to that
\* session's repository and branch, the session keeps its repository, branch
\* and startTime, its lastActivity becomes the time read when the call was
\* made, the inactivity timeout is set anew, and the batch, its timeout, the
\* history and the store stay as they are: nothing is submitted.
C28_SameAttribution ==
  [][\A h \in 1..MaxInFlight :
       /\ activeSession # NoSession
       /\ Resolved(h, activeSession.repository, activeSession.branch)
       => /\ activeSession' = [activeSession EXCEPT !.lastActivity = handlers[h].now]
          /\ activityTimer' = clock + INACTIVITY_THRESHOLD
          /\ armed' = {clock + INACTIVITY_THRESHOLD}
          /\ UNCHANGED <<timeData, batch, timeout, store, emitted, delivered>>]_vars

\* a call made at 5 s has resumed at 10 s in the session started at 0 s
C28_Witness ==
  /\ activeSession = [repository |-> "app", branch |-> "main",
                      startTime |-> 0, lastActivity |-> 5000]
  /\ clock = 10000
  /\ activityTimer = 40000
  /\ handlers = <<>>
  /\ emitted = <<>>

\* C29: at most one inactivity timeout is set at any time, and it is the one
\* the tracker holds: the timeout that fires is the one set last, never one
\* set for an earlier call, and leaves none behind.
C29_OneInactivityTimer ==
  [][/\ Cardinality(armed') <= 1
     /\ armed' \subseteq {activityTimer'}
     /\ InactivityTimeout =>
          /\ armed = {activityTimer}
          /\ clock >= activityTimer
          /\ armed' = {}]_vars

\* the timeout set at 0 s was replaced at 5 s, and the one set then has fired
C29_Witness ==
  /\ lastStop.by = "InactivityTimeout"
  /\ lastStop.session.startTime = 0
  /\ lastStop.session.lastActivity = 5000
  /\ clock = 35000
  /\ armed = {}

\* C24: an event of one source leaves the pending call of every other source
\* as it is, with its event and its due time, and the latest event of every
\* source is either still pending or has reached its listener: bursts on two
\* sources at the same time end in one call of each of the two listeners.
C24_SourcesIndependent ==
  [][/\ \A s \in Sources :
          signalled'[s] # signalled[s] =>
            \A r \in Sources \ {s} : PendingOf(debounced', r) = PendingOf(debounced, r)
     /\ \A s \in Sources :
          signalled'[s] > 0 =>
            \/ \E c \in PendingOf(debounced', s) : c.event.n = signalled'[s]
            \/ \E i \in DOMAIN notified' :
                 notified'[i].source = s /\ notified'[i].n = signalled'[s]]_vars

\* two events of "changed" and two of "saved", the four within one window,
\* have ended in one activity call for each source, for its second event
C24_Witness ==
  /\ signalled["changed"] = 2
  /\ signalled["saved"] = 2
  /\ Len(notified) = 2
  /\ \E i, j \in DOMAIN notified :
       /\ notified[i] = [source |-> "changed", n |-> 2, raised |-> 150, at |-> 450,
                         activity |-> TRUE]
       /\ notified[j].source = "saved"
       /\ notified[j].n = 2
       /\ notified[j].activity
       /\ notified[j].raised < 300

\* C25: a debounced listener is called 300 ms after an event of its source
\* that no other event of that source has followed, with that event; its calls
\* come in the order of their events and at least 300 ms apart, and an event
\* followed by another one within 300 ms never reaches the listener.
C25_TrailingEdge ==
  [][Len(notified') > Len(notified) =>
       LET m == notified'[Len(notified')]
       IN /\ m.n = signalled[m.source]
          /\ m.at = m.raised + 300
          /\ \A i \in DOMAIN notified :
               notified[i].source = m.source =>
                 /\ notified[i].n < m.n
                 /\ m.at - notified[i].at >= 300]_vars

\* three events of "changed" 150 ms apart have ended in one call, for the third
C25_Witness ==
  /\ signalled["changed"] = 3
  /\ notified = <<[source |-> "changed", n |-> 3, raised |-> 300, at |-> 600,
                   activity |-> TRUE]>>
  /\ calls = 1

\* C30: right after construction there is no session, the batch is empty, no
\* inactivity timeout is set and one check is pending, due 2 s later; a check
\* is added, due 2 s later, by each change of the workspace folders and by
\* nothing else; a check that fires leaves the tracker's fields as they are
\* and, before dispose(), does what a call of onActivity() does at that
\* moment, and after dispose() does nothing.
C30_DeferredChecks ==
  [][/\ (clock = 0 /\ rootChanges = 0 /\ ~isDisposed) =>
          /\ activeSession = NoSession
          /\ batch = <<>>
          /\ activityTimer = NoTimer
          /\ armed = {}
          /\ calls = 0
          /\ deferred = <<2000>>
     /\ Len(deferred') > Len(deferred) <=> rootChanges' = rootChanges + 1
     /\ rootChanges' # rootChanges => deferred' = Append(deferred, clock + 2000)
     /\ Len(deferred') < Len(deferred) =>
          /\ clock = Head(deferred)
          /\ deferred' = Tail(deferred)
          /\ UNCHANGED <<isDisposed, activeSession, activityTimer, armed, timeData, batch,
                         timeout, store, emitted>>
          /\ IF isDisposed
               THEN UNCHANGED <<handlers, calls, lastSignal, quiet>>
               ELSE /\ calls' = calls + 1
                    /\ lastSignal' = clock
                    /\ \/ handlers' = handlers
                       \/ handlers' = Append(handlers,
                                             [now |-> Now, due |-> clock + 2 * EXEC_TIMEOUT])]_vars

\* the check of the constructor has fired at 2 s, then dispose() was called,
\* and the check of a folder change at 1 s has fired at 3 s and done nothing
C30_Witness ==
  /\ isDisposed
  /\ rootChanges = 1
  /\ deferred = <<>>
  /\ calls = 1
  /\ clock = 3000

\* the entries of the history with the given repository, branch and date
Of(history, repository, branch, date) ==
  LET Matches(entry) ==
        entry.repository = repository /\ entry.branch = branch /\ entry.date = date
  IN SelectSeq(history, Matches)

RECURSIVE Total(_)
\* the sum of the durations of the entries
Total(entries) ==
  IF entries = <<>> THEN 0 ELSE Head(entries).duration + Total(Tail(entries))

\* C26: what getStatsForRepository(repo) returns has a value under a branch
\* and a date exactly when the history has an entry of repo with that branch
\* and that date, and the value is the sum of the durations of these entries;
\* the batch and the active session count for nothing.
C26_StatsPerBranchAndDate ==
  lastStop.by = "Query" =>
    LET stats == reply.stats
        entries(branch, date) == Of(timeData, reply.repository, branch, date)
        all == {timeData[i] : i \in DOMAIN timeData}
    IN /\ \A e \in all :
            e.repository = reply.repository =>
              /\ e.branch \in DOMAIN stats
              /\ e.date \in DOMAIN stats[e.branch]
              /\ stats[e.branch][e.date] = Total(entries(e.branch, e.date))
       /\ \A branch \in DOMAIN stats :
            /\ DOMAIN stats[branch] # {}
            /\ \A date \in DOMAIN stats[branch] : entries(branch, date) # <<>>

\* what getTimezoneOffset() may amount to where the tracker runs: local time
\* is UTC plus one of these
UtcOffsets == {-(MS_PER_DAY \div 24), 0, MS_PER_DAY \div 24}

\* the calendar day of t on a clock that is UTC plus offset
LocalDate(t, offset) == (t + offset) \div MS_PER_DAY

\* C31: whatever the local UTC offset, the date of every entry submitted is
\* the local calendar day in which its session started.
C31_DateIsLocalDay ==
  \A offset \in UtcOffsets, i \in DOMAIN emitted :
    emitted[i].date = LocalDate(emitted[i].startTime, offset)

\* C32: a session's lastActivity is never before its startTime, and as long
\* as the session lasts no step moves its lastActivity back, in whatever order
\* the suspended calls resume.
C32_LastActivityMonotonic ==
  [][activeSession' # NoSession =>
       /\ activeSession'.lastActivity >= activeSession'.startTime
       /\ (/\ activeSession # NoSession
           /\ activeSession'.repository = activeSession.repository
           /\ activeSession'.branch = activeSession.branch
           /\ activeSession'.startTime = activeSession.startTime)
          => activeSession'.lastActivity >= activeSession.lastActivity]_vars

\* C33: after every step, while a session exists one inactivity timeout is
\* set and has not fired, due now or later and at most INACTIVITY_THRESHOLD
\* from now; and the timeout that fires leaves no session. So a session that
\* no call touches any more is stopped INACTIVITY_THRESHOLD after its timeout
\* was set last, also after focus loss, resetData() and a call that resumes
\* after dispose().
C33_SessionsEnd ==
  [][/\ activeSession' # NoSession =>
          /\ armed' # {}
          /\ \A d \in armed' : clock' <= d /\ d <= clock' + INACTIVITY_THRESHOLD
     /\ InactivityTimeout => activeSession' = NoSession]_vars

\* a call suspended at dispose() has resumed two exec timeouts after it was
\* made and started a session, whose timeout is set
C33_Witness ==
  /\ isDisposed
  /\ activeSession # NoSession
  /\ armed = {activeSession.lastActivity + 2 * EXEC_TIMEOUT + INACTIVITY_THRESHOLD}

\* C34: between the calls of its methods the BatchUpdater has a timeout set
\* exactly when its batch is not empty, that timeout is the one it holds, and
\* no second one is set.
C34_TimerIffPending ==
  /\ Cardinality(flushTimers) <= 1
  /\ flushTimers = IF batch # <<>> THEN {timeout} ELSE {}
  /\ batch = <<>> <=> timeout = NoTimer

\* the timeout of the first item has fired at 5 s and flushed it, and the
\* second item, added then, has set the timeout anew
C34_Witness ==
  /\ Len(delivered) = 1
  /\ batch = <<Item(2)>>
  /\ flushTimers = {2 * BATCH_TIMEOUT}
  /\ clock = BATCH_TIMEOUT

\* after the step a timeout is set for a batch that is not empty, due now or
\* later and within one batch window, and the flush of the step, when the
\* file system did one of the given things, has left each of its entries in
\* the history and in the store
FlushedWhen(outcomes) ==
  /\ batch' # <<>> =>
       /\ flushTimers' # {}
       /\ \A d \in flushTimers' : clock' <= d /\ d <= clock' + BATCH_TIMEOUT
  /\ delivered' # delivered =>
       LET flushed == delivered'[Len(delivered')]
       IN flushed.io \in outcomes =>
            \A i \in DOMAIN flushed.items :
              /\ flushed.items[i] \in Range(GetTimeData([timeData |-> timeData']))
              /\ flushed.items[i] \in Range(store')

C36_Conservation ==
  emitted = timeData \o batch
\* ---------------------------------------------------------------------------
\* the batched tracker and the direct-save tracker side by side, both
\* constructed without a data file and given the same events
InitRefine == Constructor("missing", <<>>, <<>>) /\ direct = DirectTracker("missing", <<>>)

SpecRefine == InitRefine /\ [][NextStops]_vars

\* C37: given the same events the batched tracker refines the direct-save one:
\* as long as every write of the batched tracker succeeds, the direct-save
\* history is at every state the batched history followed by the pending
\* batch, and right after dispose() the two histories are equal and the two
\* data files hold the same entries.
C37_Refinement ==
  [][(\A i \in DOMAIN delivered' : delivered'[i].io = "ok") =>
       /\ direct'.timeData = timeData' \o batch'
       /\ (isDisposed' /\ ~isDisposed) => /\ direct'.timeData = timeData'
                                          /\ direct'.store = store']_vars

\* C38: write amplification is bounded.  The file is written only inside a
\* flush, which hands over a non-empty batch (what was pending and what the
\* step submitted) and leaves the batch empty; a step makes at most one flush
\* and a flush at most one write; the flushes made are never more than the
\* entries submitted; and a step that submits nothing and is neither the batch
\* timeout nor dispose() (an activity event, a lastActivity update, a timer
\* re-arm, the stop of a discarded session) neither flushes nor writes.
C38_BoundedWrites ==
  [][/\ store' # store => delivered' # delivered
     /\ delivered' # delivered =>
          /\ delivered' = Append(delivered, delivered'[Len(delivered')])
          /\ delivered'[Len(delivered')].items # <<>>
          /\ delivered'[Len(delivered')].items
               = batch \o SubSeq(emitted', Len(emitted) + 1, Len(emitted'))
          /\ batch' = <<>>
          /\ store' \in {store, timeData'}
     /\ Len(delivered') <= Len(emitted')
     /\ (/\ emitted' = emitted
         /\ ~(isDisposed' /\ ~isDisposed)
         /\ ~(\E d \in flushTimers \ flushTimers' : clock >= d))
          => delivered' = delivered /\ store' = store]_vars

\* one entry has been written by one flush; a later activity event has started
\* a session, which the focus loss has stopped and discarded
C38_Witness ==
  /\ Len(emitted) = 1
  /\ delivered = <<[items |-> emitted, io |-> "ok"]>>
  /\ store = emitted
  /\ lastStop.by = "WindowLostFocus"
  /\ lastStop.session.startTime > emitted[1].endTime
  /\ SessionDuration(lastStop.session) <= MIN_SESSION_MS
  /\ activeSession = NoSession

====
